---- MODULE Spec2Model ----
(***************************************************************************)
(* sentra: the headless sampler loop (collector/agent.py), the MySQL       *)
(* persistence layer (api/datastore.py) and the connection settings        *)
(* (config/config.py).                                                     *)
(*                                                                         *)
(* Two processes share one MySQL/InnoDB store: "agent" runs main(), the    *)
(* single writer; "dash" is the dashboard/API collaborator that calls the  *)
(* history readers and purge_before.  Every datastore call opens its own   *)
(* connection; one action is one SQL statement (or one line of main()), so *)
(* that statements of the two processes interleave.  Time is in            *)
(* milliseconds.                                                           *)
(***************************************************************************)
EXTENDS Integers, Sequences, FiniteSets, TLC

VARIABLES now,          \* wall clock, ms
          ctr,          \* the host's cumulative disk / net byte counters
          db,           \* committed rows of the six series tables
          schema,       \* tables, indexes and cpu_samples columns of the store
          initialized,  \* datastore._initialized, one per process
          pc,           \* where each process is
          call,         \* the datastore call each process is in
          agent,        \* the locals of main()
          tick,         \* iterations of main()'s loop started so far
          hist,         \* per tick: how it ended
          cur,          \* the current tick: what was collected and submitted
          dres,         \* what the dashboard's last call returned
          pchain,       \* the current run of purges with one cutoff
          ops,          \* dashboard calls started so far
          restarts,     \* process restarts so far
          lastErr       \* per process: the error its current call raised, and
                        \* after how many statements

vars == <<now, ctr, db, schema, initialized, pc, call, agent, tick, hist, cur,
          dres, pchain, ops, restarts, lastErr>>

\* Python's None where a mapping, a row or a rate is expected: the empty map.
None == <<>>

(* ------------------------------ bounds -------------------------------- *)
\* Iterations of main()'s loop, calls of the dashboard and process restarts
\* in one behaviour.
MaxTicks == 3
MaxOps == 3
MaxRestarts == 1
\* Iterations of main()'s loop where the sampler may also be killed and
\* started again.
MaxWriterTicks == 2
\* Iterations of main()'s loop and calls of the dashboard where the calls of
\* the two processes follow one another.
MaxSeqTicks == 1
MaxSeqOps == 1
\* Rows of cpu_samples and of mem_samples a history call is run against.
MaxJoinRows == 2
\* The same, where the two processes run concurrently.
MaxConcTicks == 1
MaxConcOps == 1

(* ------------------------- program constants -------------------------- *)
SAMPLE_INTERVAL == 2000
Epsilon == 1
SleepFloor == 500
ER_DUP_KEYNAME == 1061
ER_DUP_FIELDNAME == 1060
ER_TABLE_EXISTS == 1050
ER_NO_SUCH_TABLE == 1146
CR_SERVER_LOST == 2013
\* time.time() when main() is entered
StartTime == 60000

\* A connection that commits every statement on its own.
autocommitOn == TRUE
\* get_db_config: cfg.setdefault("autocommit", False)
autocommit == FALSE
\* get_db_config: cfg.setdefault("raise_on_warnings", False)
raise_on_warnings == FALSE

Procs == {"agent", "dash"}

(* ------------------------------ helpers ------------------------------- *)
Max(a, b) == IF a >= b THEN a ELSE b

\* Python int() of a number of seconds given in milliseconds: truncation
\* toward zero.
PyInt(ms) == IF ms >= 0 THEN ms \div 1000 ELSE -((-ms) \div 1000)

Range(s) == {s[i] : i \in 1..Len(s)}

(* ------------------------------ schema -------------------------------- *)
\* The six series tables, in the order purge_before walks them.
SeriesTables == <<"cpu_samples", "mem_samples", "gpu_samples",
                  "disk_samples", "net_samples", "fan_samples">>
SeriesSet == Range(SeriesTables)

AuxTables == <<"dashboard_settings", "gpu_labels", "gpu_visibility">>

CpuBaseCols == {"ts", "total_util", "iowait", "per_core", "cpu_temp",
                "load1", "load5", "load15", "uptime_sec"}
CpuAllCols == CpuBaseCols \cup {"user_pct", "system_pct"}

Stmt(kind, name, table) == [kind |-> kind, name |-> name, table |-> table]

\* The schema statements of init_db_if_needed, in execution order.
InitStmts ==
    [i \in 1..6 |-> Stmt("table", SeriesTables[i], SeriesTables[i])]
    \o [i \in 1..3 |-> Stmt("table", AuxTables[i], AuxTables[i])]
    \o << Stmt("index", "idx_cpu_ts", "cpu_samples"),
          Stmt("index", "idx_mem_ts", "mem_samples"),
          Stmt("index", "idx_gpu_ts", "gpu_samples"),
          Stmt("index", "idx_disk_ts", "disk_samples"),
          Stmt("index", "idx_net_ts", "net_samples"),
          Stmt("index", "idx_fan_ts", "fan_samples"),
          Stmt("column", "user_pct", "cpu_samples"),
          Stmt("column", "system_pct", "cpu_samples") >>

NInit == Len(InitStmts)

EmptySchema == [tables |-> {}, indexes |-> {}, cpu_cols |-> {}]

\* A store created by an earlier version: cpu_samples without the two
\* breakdown columns, indexed.
LegacySchema == [tables |-> {"cpu_samples", "mem_samples"},
                 indexes |-> {"idx_cpu_ts"},
                 cpu_cols |-> CpuBaseCols]

\* What the server does with one schema statement: the new schema and the
\* error number (0: none) it answers.
ExecDDL(st, s) ==
    CASE st.kind = "table" ->
           IF st.name \in s.tables
           THEN [schema |-> s,
                 errno |-> IF raise_on_warnings THEN ER_TABLE_EXISTS ELSE 0]
           ELSE [schema |-> [s EXCEPT !.tables = @ \cup {st.name},
                                      !.cpu_cols = IF st.name = "cpu_samples"
                                                   THEN CpuAllCols ELSE @],
                 errno |-> 0]
      [] st.kind = "index" ->
           IF st.table \notin s.tables
           THEN [schema |-> s, errno |-> ER_NO_SUCH_TABLE]
           ELSE IF st.name \in s.indexes
           THEN [schema |-> s, errno |-> ER_DUP_KEYNAME]
           ELSE [schema |-> [s EXCEPT !.indexes = @ \cup {st.name}], errno |-> 0]
      [] OTHER ->
           IF st.table \notin s.tables
           THEN [schema |-> s, errno |-> ER_NO_SUCH_TABLE]
           ELSE IF st.name \in s.cpu_cols
           THEN [schema |-> s, errno |-> ER_DUP_FIELDNAME]
           ELSE [schema |-> [s EXCEPT !.cpu_cols = @ \cup {st.name}], errno |-> 0]

\* The schema a successful init_db_if_needed leaves.
FinalSchema == [tables |-> Range(SeriesTables) \cup Range(AuxTables),
                indexes |-> {InitStmts[i].name : i \in 10..15},
                cpu_cols |-> CpuAllCols]

\* Except clauses that re-raise whatever they catch.
SwallowNothing(st, errno) == FALSE

\* The except clauses of init_db_if_needed: which errors are swallowed.
Swallowed(st, errno) ==
    \/ st.kind = "index" /\ errno = ER_DUP_KEYNAME
    \/ st.kind = "column" /\ errno = ER_DUP_FIELDNAME

(* ------------------------------ rows ---------------------------------- *)
\* A row of a series table.  snap names the tick that produced it; it is not
\* a column, it only tells the rows of two snapshots with equal ts apart.
Row(ts, snap, key, val) == [ts |-> ts, snap |-> snap, key |-> key, val |-> val]
Ins(table, row) == [table |-> table, row |-> row]

EmptyDb == [t \in SeriesSet |-> <<>>]

DevSeq == <<"sda">>
IfaceSeq == <<"eth0">>
FanSeq == <<"fan1">>

\* A GPU reading from gpu_collector: valid, or carrying an "error" key.
Gpu(index, error) == [index |-> index, error |-> error, temp |-> 40 + index]
GpuChoices == { <<>>,
                << Gpu(0, FALSE), Gpu(1, TRUE) >>,
                << Gpu(0, TRUE), Gpu(1, FALSE) >> }

\* for g in gpus: if "error" in g: continue; INSERT INTO gpu_samples ...
RECURSIVE GpuStmts(_, _)
GpuStmts(snapshot, gpus) ==
    IF gpus = <<>> THEN <<>>
    ELSE LET g == Head(gpus) IN
         IF g.error
         THEN GpuStmts(snapshot, Tail(gpus))
         ELSE << Ins("gpu_samples",
                     Row(snapshot.ts, snapshot.snap, g.index, g.temp)) >>
              \o GpuStmts(snapshot, Tail(gpus))

\* The GPU loop leaving at the first entry with an error marker (break).
RECURSIVE GpuStmtsBreak(_, _)
GpuStmtsBreak(snapshot, gpus) ==
    IF gpus = <<>> \/ Head(gpus).error THEN <<>>
    ELSE << Ins("gpu_samples",
                Row(snapshot.ts, snapshot.snap, Head(gpus).index, Head(gpus).temp)) >>
         \o GpuStmtsBreak(snapshot, Tail(gpus))

\* insert_snapshot with that loop.
InsertStmtsBreak(snapshot, gpus) ==
    << Ins("cpu_samples", Row(snapshot.ts, snapshot.snap, "-", snapshot.cpu)),
       Ins("mem_samples", Row(snapshot.ts, snapshot.snap, "-", snapshot.mem)) >>
    \o GpuStmtsBreak(snapshot, gpus)
    \o [i \in 1..Len(DevSeq) |->
          Ins("disk_samples",
              Row(snapshot.ts, snapshot.snap, DevSeq[i], snapshot.disk[DevSeq[i]]))]
    \o [i \in 1..Len(IfaceSeq) |->
          Ins("net_samples",
              Row(snapshot.ts, snapshot.snap, IfaceSeq[i], snapshot.net[IfaceSeq[i]]))]
    \o [i \in 1..Len(FanSeq) |->
          Ins("fan_samples",
              Row(snapshot.ts, snapshot.snap, FanSeq[i], snapshot.fans[FanSeq[i]]))]

\* The INSERT statements insert_snapshot issues for one snapshot, in order.
InsertStmts(snapshot, gpus) ==
    << Ins("cpu_samples", Row(snapshot.ts, snapshot.snap, "-", snapshot.cpu)),
       Ins("mem_samples", Row(snapshot.ts, snapshot.snap, "-", snapshot.mem)) >>
    \o GpuStmts(snapshot, gpus)
    \o [i \in 1..Len(DevSeq) |->
          Ins("disk_samples",
              Row(snapshot.ts, snapshot.snap, DevSeq[i], snapshot.disk[DevSeq[i]]))]
    \o [i \in 1..Len(IfaceSeq) |->
          Ins("net_samples",
              Row(snapshot.ts, snapshot.snap, IfaceSeq[i], snapshot.net[IfaceSeq[i]]))]
    \o [i \in 1..Len(FanSeq) |->
          Ins("fan_samples",
              Row(snapshot.ts, snapshot.snap, FanSeq[i], snapshot.fans[FanSeq[i]]))]

\* Appending the rows of executed INSERT statements to the tables.
RECURSIVE Apply(_, _)
Apply(d, stmts) ==
    IF stmts = <<>> THEN d
    ELSE Apply([d EXCEPT ![Head(stmts).table] = Append(@, Head(stmts).row)],
               Tail(stmts))

\* A DELETE that removes only the first row it matches (LIMIT 1).
DeleteFirst(rows, cutoff) ==
    LET hit == {i \in 1..Len(rows) : rows[i].ts < cutoff}
    IN IF hit = {} THEN rows
       ELSE LET k == CHOOSE i \in hit : \A j \in hit : i <= j
            IN SubSeq(rows, 1, k - 1) \o SubSeq(rows, k + 1, Len(rows))

\* A DELETE that also removes the rows at the cutoff (ts <= cutoff).
DeleteUpTo(rows, cutoff) == SelectSeq(rows, LAMBDA r : ~(r.ts <= cutoff))

\* DELETE FROM tbl WHERE ts < cutoff
DeleteFrom(rows, cutoff) == SelectSeq(rows, LAMBDA r : ~(r.ts < cutoff))

\* SELECT ... WHERE ts >= since ORDER BY ts ASC
RECURSIVE SortByTs(_)
SortByTs(rows) ==
    IF rows = <<>> THEN <<>>
    ELSE LET m == CHOOSE a \in {rows[i].ts : i \in 1..Len(rows)} :
                      \A i \in 1..Len(rows) : a <= rows[i].ts
         IN SelectSeq(rows, LAMBDA r : r.ts = m)
            \o SortByTs(SelectSeq(rows, LAMBDA r : r.ts # m))

SelectSince(rows, since) == SortByTs(SelectSeq(rows, LAMBDA r : r.ts >= since))

\* pd.merge(df_cpu, df_mem, on="ts", how="outer").sort_values("ts"): one
\* result row per pair of a cpu row and a mem row with equal ts; a row of
\* either frame without a partner is paired with None.
RECURSIVE Pairs(_, _)
Pairs(cs, ms) ==
    IF cs = <<>> THEN <<>>
    ELSE [j \in 1..Len(ms) |-> [ts |-> Head(cs).ts, cpu |-> Head(cs), mem |-> ms[j]]]
         \o Pairs(Tail(cs), ms)

RECURSIVE MergeKeys(_, _, _)
MergeKeys(keys, cpu, mem) ==
    IF keys = {} THEN <<>>
    ELSE LET k == CHOOSE a \in keys : \A b \in keys : a <= b
             cs == SelectSeq(cpu, LAMBDA r : r.ts = k)
             ms == SelectSeq(mem, LAMBDA r : r.ts = k)
             here == IF ms = <<>>
                     THEN [j \in 1..Len(cs) |-> [ts |-> k, cpu |-> cs[j], mem |-> None]]
                     ELSE IF cs = <<>>
                     THEN [j \in 1..Len(ms) |-> [ts |-> k, cpu |-> None, mem |-> ms[j]]]
                     ELSE Pairs(cs, ms)
         IN here \o MergeKeys(keys \ {k}, cpu, mem)

\* A merge that keeps only the ts present in both frames (how="inner").
MergeInner(cpu, mem) ==
    MergeKeys({cpu[i].ts : i \in 1..Len(cpu)} \cap {mem[i].ts : i \in 1..Len(mem)},
              cpu, mem)

MergeOuter(cpu, mem) ==
    MergeKeys({cpu[i].ts : i \in 1..Len(cpu)} \cup {mem[i].ts : i \in 1..Len(mem)},
              cpu, mem)

(* --------------------------- call records ----------------------------- *)
\* The datastore call a process is in: op, phase ("init": inside
\* init_db_if_needed, "body": after it), i statements executed in the phase,
\* pend the rows inserted and not yet committed, arg the cutoff (purge, ms)
\* or since (readers, s), view the read view of the connection's
\* transaction, got what the first SELECT returned.
NoCall == [op |-> "none", phase |-> "none", i |-> 0, stmts |-> <<>>,
           pend |-> <<>>, arg |-> 0, since |-> 0, view |-> EmptyDb, got |-> <<>>]

\* An entry that runs the schema statements on every call.
EnterAlwaysInit(p, op, stmts, arg) ==
    [NoCall EXCEPT !.op = op, !.stmts = stmts, !.arg = arg, !.phase = "init"]

\* init_db_if_needed's entry: if _initialized: return
Enter(p, op, stmts, arg) ==
    [NoCall EXCEPT !.op = op, !.stmts = stmts, !.arg = arg,
                   !.phase = IF initialized[p] THEN "body" ELSE "init"]

\* The current tick: prev0, start0 and obs0 are what prev_disk/prev_net, the
\* start of the iteration before and the last observation were when it began.
NoCur == [collected |-> FALSE, gpus |-> <<>>, stmts |-> <<>>, attempts |-> 0,
          prev0 |-> None, new |-> None, start0 |-> 0, obs0 |-> None,
          obs_at0 |-> 0]

NoErr == [errno |-> 0, phase |-> "none", at |-> 0]

NoChain == [on |-> FALSE, cutoff |-> 0, base |-> EmptyDb, succ |-> 0,
            fails |-> 0]

NoRes == [op |-> "none", status |-> "none", rows |-> <<>>, cpu |-> <<>>,
          mem |-> <<>>, arg |-> 0, during |-> FALSE, minutes |-> 0]

\* main(): prev_disk = None; prev_net = None; last_tick = time.time()
\* Besides the locals: obs, the counters the process last read from the
\* Metrics Source, obs_at, the start of the tick that read them, and prev_at,
\* the start of the tick whose counters prev_disk/prev_net hold.
AgentStart(t) == [prev_disk |-> None, prev_net |-> None, last_tick |-> t,
                  start |-> t, interval_s |-> 0, elapsed |-> 0, sleep_for |-> 0,
                  obs |-> None, obs_at |-> 0, prev_at |-> 0]

\* What an earlier run of the sampler has committed: two snapshots, one and
\* two seconds before this run starts.
OldSnapshot(n) ==
    [ts |-> PyInt(StartTime) - 1 + n, snap |-> n, cpu |-> 10 + n, mem |-> 20 + n,
     disk |-> [k \in Range(DevSeq) |-> None],
     net |-> [k \in Range(IfaceSeq) |-> None],
     fans |-> [k \in Range(FanSeq) |-> 900]]

OldDb == Apply(Apply(EmptyDb, InsertStmts(OldSnapshot(-1), << Gpu(0, FALSE) >>)),
               InsertStmts(OldSnapshot(0), << Gpu(0, FALSE), Gpu(1, FALSE) >>))

\* Both processes have just been started at time t (warm: have made an
\* earlier call), against a store in schema s that holds the rows d.
BootAt(t, s, d, warm) ==
    /\ now = t
    /\ ctr = [disk |-> 100, net |-> 200]
    /\ db = d
    /\ schema = s
    /\ initialized = [p \in Procs |-> warm]
    /\ pc = [p \in Procs |-> IF p = "agent" THEN "top" ELSE "idle"]
    /\ call = [p \in Procs |-> NoCall]
    /\ agent = AgentStart(t)
    /\ tick = 0
    /\ hist = [n \in 1..MaxTicks |-> "none"]
    /\ cur = NoCur
    /\ dres = NoRes
    /\ pchain = NoChain
    /\ ops = 0
    /\ restarts = 0
    /\ lastErr = [p \in Procs |-> NoErr]

Boot(s, d, warm) == BootAt(StartTime, s, d, warm)

\* The store is set up already and holds older rows, as at every start but
\* the first.
Init == Boot(FinalSchema, OldDb, FALSE)

\* The same, once each process has completed one datastore call.
InitWarm == Boot(FinalSchema, OldDb, TRUE)

\* The first start: against an empty store, or one set up by a version
\* without the breakdown columns.
InitFresh == \E s \in {EmptySchema, LegacySchema} : Boot(s, EmptyDb, FALSE)

\* The ts values of rows a history call is run against, around the start of
\* its window, and the times of the call: on a whole second and between two.
JoinTs == {PyInt(StartTime) - 1, PyInt(StartTime), PyInt(StartTime) + 1}
JoinNows == {StartTime, StartTime + 500}

\* All sequences over S of length n or less.
RECURSIVE SeqsUpTo(_, _)
SeqsUpTo(S, n) ==
    IF n = 0 THEN { <<>> }
    ELSE LET shorter == SeqsUpTo(S, n - 1)
         IN shorter \cup {Append(q, x) : q \in shorter, x \in S}

\* Rows with the ts values tss, in that order of insertion.
TableRows(tss, v) == [i \in 1..Len(tss) |-> Row(tss[i], i, "-", v + i)]

\* A store whose cpu_samples and mem_samples hold any rows, also rows of one
\* series without a row of the other, as a writer other than
\* insert_snapshot leaves them.
InitJoin ==
    \E t \in JoinNows :
      \E c \in SeqsUpTo(JoinTs, MaxJoinRows), m \in SeqsUpTo(JoinTs, MaxJoinRows) :
        BootAt(t, FinalSchema,
               [EmptyDb EXCEPT !["cpu_samples"] = TableRows(c, 10),
                               !["mem_samples"] = TableRows(m, 20)],
               TRUE)

(* ----------------------- raising out of a call ------------------------ *)
\* An exception leaves a datastore call: the finally clause closes the
\* connection, which rolls back what the transaction has not committed, and
\* the exception propagates to the caller: through collect_and_store into
\* main()'s try for the agent, to the dashboard's caller otherwise.
Raised(p, errno) ==
    /\ call' = [call EXCEPT ![p] = NoCall]
    /\ lastErr' = [lastErr EXCEPT ![p] = [errno |-> errno,
                                          phase |-> call[p].phase,
                                          at |-> call[p].i]]
    /\ IF p = "agent"
       THEN /\ pc' = [pc EXCEPT ![p] = "except"]
            /\ hist' = [hist EXCEPT ![tick] = "write_failed"]
            /\ UNCHANGED <<dres, pchain>>
       ELSE /\ pc' = [pc EXCEPT ![p] = "idle"]
            /\ dres' = [NoRes EXCEPT !.op = call[p].op, !.status = "raised",
                                     !.arg = call[p].arg]
            /\ pchain' = IF call[p].op = "purge" /\ call[p].phase = "body"
                            /\ pchain.on /\ pchain.cutoff = call[p].arg
                         THEN [pchain EXCEPT !.fails = 1] ELSE pchain
            /\ UNCHANGED hist

(* ------------------------- init_db_if_needed -------------------------- *)
\* One schema statement of init_db_if_needed.  DDL commits implicitly.
InitStmt(p) ==
    /\ call[p].phase = "init"
    /\ call[p].i < NInit
    /\ LET st == InitStmts[call[p].i + 1]
           r == ExecDDL(st, schema)
       IN \/ /\ r.errno = 0 \/ Swallowed(st, r.errno)
             /\ schema' = r.schema
             /\ call' = [call EXCEPT ![p].i = @ + 1]
             /\ UNCHANGED <<pc, hist, dres, pchain, lastErr>>
          \/ /\ \E e \in {CR_SERVER_LOST} \cup
                         (IF r.errno # 0 /\ ~Swallowed(st, r.errno)
                          THEN {r.errno} ELSE {}) : Raised(p, e)
             /\ UNCHANGED schema
    /\ UNCHANGED <<now, ctr, db, initialized, agent, tick, cur, ops, restarts>>

\* An end of init_db_if_needed that sets the flag before it commits.
InitCommitFlagFirst(p) ==
    /\ call[p].phase = "init"
    /\ call[p].i = NInit
    /\ initialized' = [initialized EXCEPT ![p] = TRUE]
    /\ \/ /\ call' = [call EXCEPT ![p].phase = "body", ![p].i = 0]
          /\ UNCHANGED <<pc, hist, dres, pchain, lastErr>>
       \/ Raised(p, CR_SERVER_LOST)
    /\ UNCHANGED <<now, ctr, db, schema, agent, tick, cur, ops, restarts>>

\* conn.commit(); _initialized = True
InitCommit(p) ==
    /\ call[p].phase = "init"
    /\ call[p].i = NInit
    /\ \/ /\ initialized' = [initialized EXCEPT ![p] = TRUE]
          /\ call' = [call EXCEPT ![p].phase = "body", ![p].i = 0]
          /\ UNCHANGED <<pc, hist, dres, pchain, lastErr>>
       \/ /\ Raised(p, CR_SERVER_LOST)
          /\ UNCHANGED initialized
    /\ UNCHANGED <<now, ctr, db, schema, agent, tick, cur, ops, restarts>>

(* ------------------------------ main() -------------------------------- *)
\* How long one collection takes, ms.
ProcTimes == {0, 1700}
\* By how many bytes the host's cumulative counters grow between two reads.
CtrIncs == {4}

\* while True: start = time.time(); interval_s = max(start - last_tick, 0.001)
LoopTop ==
    /\ pc["agent"] = "top"
    /\ tick < MaxTicks
    /\ tick' = tick + 1
    /\ agent' = [agent EXCEPT !.start = now,
                              !.interval_s = Max(now - agent.last_tick, Epsilon)]
    /\ hist' = [hist EXCEPT ![tick + 1] = "started"]
    /\ cur' = [NoCur EXCEPT !.prev0 = [disk |-> agent.prev_disk,
                                       net |-> agent.prev_net],
                            !.start0 = agent.start,
                            !.obs0 = agent.obs,
                            !.obs_at0 = agent.obs_at]
    /\ lastErr' = [lastErr EXCEPT !["agent"] = NoErr]
    /\ pc' = [pc EXCEPT !["agent"] = "collect"]
    /\ UNCHANGED <<now, ctr, db, schema, initialized, call, dres, pchain, ops,
                   restarts>>

\* Rate Calculator: no rate for a key without a previous counter,
\* (current - previous) / elapsed otherwise; kept as the exact fraction.
Rate(prev, key, c, interval) ==
    IF prev = None THEN None
    ELSE [delta |-> c - prev[key], ms |-> interval]

\* logger.collect_and_store up to its call of insert_snapshot: read the
\* Metrics Source (which may fail), derive the rates, assemble the snapshot.
Collect ==
    /\ pc["agent"] = "collect"
    /\ \E d \in ProcTimes :
        /\ now' = now + d
        /\ \/ /\ pc' = [pc EXCEPT !["agent"] = "except"]
              /\ hist' = [hist EXCEPT ![tick] = "collect_failed"]
              /\ UNCHANGED <<ctr, call, cur, agent>>
           \/ \E gpus \in GpuChoices, inc \in CtrIncs :
                LET c == [disk |-> ctr.disk + inc, net |-> ctr.net + inc + 1]
                    snapshot ==
                      [ts |-> PyInt(now + d), snap |-> tick,
                       cpu |-> 10 + tick, mem |-> 20 + tick,
                       disk |-> [k \in Range(DevSeq) |->
                                   Rate(agent.prev_disk, k, c.disk, agent.interval_s)],
                       net |-> [k \in Range(IfaceSeq) |->
                                   Rate(agent.prev_net, k, c.net, agent.interval_s)],
                       fans |-> [k \in Range(FanSeq) |-> 900]]
                    new == [disk |-> [k \in Range(DevSeq) |-> c.disk],
                            net |-> [k \in Range(IfaceSeq) |-> c.net]]
                IN /\ ctr' = c
                   /\ agent' = [agent EXCEPT !.obs = new, !.obs_at = agent.start]
                   /\ cur' = [cur EXCEPT
                                !.collected = TRUE,
                                !.gpus = gpus,
                                !.stmts = InsertStmts(snapshot, gpus),
                                !.attempts = @ + 1,
                                !.new = new]
                   /\ call' = [call EXCEPT !["agent"] =
                                 Enter("agent", "insert",
                                       InsertStmts(snapshot, gpus), tick)]
                   /\ hist' = [hist EXCEPT ![tick] = "writing"]
                   /\ pc' = [pc EXCEPT !["agent"] = "call"]
    /\ UNCHANGED <<db, schema, initialized, tick, dres, pchain, ops,
                   restarts, lastErr>>

(* --------------------------- insert_snapshot -------------------------- *)
\* InnoDB: a DELETE ... WHERE ts < cutoff of an open transaction locks the
\* range it scanned, so an INSERT below the cutoff waits for that
\* transaction to end.
LockedByPurge(st) ==
    /\ ~autocommit
    /\ call["dash"].op = "purge"
    /\ call["dash"].phase = "body"
    /\ \E k \in 1..call["dash"].i :
          SeriesTables[k] = st.table /\ st.row.ts < PyInt(call["dash"].arg)

\* One cursor.execute(INSERT ...) of insert_snapshot.
InsertStmt ==
    /\ call["agent"].op = "insert"
    /\ call["agent"].phase = "body"
    /\ call["agent"].i < Len(call["agent"].stmts)
    /\ LET st == call["agent"].stmts[call["agent"].i + 1]
       IN \/ /\ ~LockedByPurge(st)
             /\ IF autocommit
                THEN /\ db' = Apply(db, <<st>>)
                     /\ call' = [call EXCEPT !["agent"].i = @ + 1]
                ELSE /\ db' = db
                     /\ call' = [call EXCEPT !["agent"].i = @ + 1,
                                             !["agent"].pend = Append(@, st)]
             /\ UNCHANGED <<pc, hist, dres, pchain, lastErr>>
          \/ /\ Raised("agent", CR_SERVER_LOST)
             /\ UNCHANGED db
    /\ UNCHANGED <<now, ctr, schema, initialized, agent, tick, cur, ops, restarts>>

\* conn.commit() of insert_snapshot, and its return to collect_and_store.
InsertCommit ==
    /\ call["agent"].op = "insert"
    /\ call["agent"].phase = "body"
    /\ call["agent"].i = Len(call["agent"].stmts)
    /\ \/ /\ db' = Apply(db, call["agent"].pend)
          /\ call' = [call EXCEPT !["agent"] = NoCall]
          /\ hist' = [hist EXCEPT ![tick] = "committed"]
          /\ pc' = [pc EXCEPT !["agent"] = "return"]
          /\ pchain' = NoChain
          /\ UNCHANGED <<dres, lastErr>>
       \/ /\ Raised("agent", CR_SERVER_LOST)
          /\ UNCHANGED db
    /\ UNCHANGED <<now, ctr, schema, initialized, agent, tick, cur, ops, restarts>>

\* snapshot, gpus, containers, prev_disk, prev_net = collect_and_store(...)
Return ==
    /\ pc["agent"] = "return"
    /\ agent' = [agent EXCEPT !.prev_disk = cur.new.disk,
                              !.prev_net = cur.new.net,
                              !.prev_at = agent.start]
    /\ pc' = [pc EXCEPT !["agent"] = "after"]
    /\ UNCHANGED <<now, ctr, db, schema, initialized, call, tick, hist, cur,
                   dres, pchain, ops, restarts, lastErr>>

\* An except clause that re-raises: the exception leaves main().
ExceptPropagates ==
    /\ pc["agent"] = "except"
    /\ pc' = [pc EXCEPT !["agent"] = "exit"]
    /\ UNCHANGED <<now, ctr, db, schema, initialized, call, agent, tick, hist,
                   cur, dres, pchain, ops, restarts, lastErr>>

\* An except clause that submits the snapshot of a failed write once more.
ExceptRetry ==
    /\ pc["agent"] = "except"
    /\ IF cur.collected /\ cur.attempts < 2
       THEN /\ pc' = [pc EXCEPT !["agent"] = "call"]
            /\ call' = [call EXCEPT !["agent"] =
                          Enter("agent", "insert", cur.stmts, tick)]
            /\ cur' = [cur EXCEPT !.attempts = @ + 1]
            /\ hist' = [hist EXCEPT ![tick] = "writing"]
       ELSE /\ pc' = [pc EXCEPT !["agent"] = "after"]
            /\ UNCHANGED <<call, cur, hist>>
    /\ UNCHANGED <<now, ctr, db, schema, initialized, agent, tick, dres, pchain,
                   ops, restarts, lastErr>>

\* except Exception: traceback.print_exc()
Except ==
    /\ pc["agent"] = "except"
    /\ pc' = [pc EXCEPT !["agent"] = "after"]
    /\ UNCHANGED <<now, ctr, db, schema, initialized, call, agent, tick, hist,
                   cur, dres, pchain, ops, restarts, lastErr>>

\* An end of iteration that takes the time after the work as last_tick.
AfterTickEnd ==
    /\ pc["agent"] = "after"
    /\ agent' = [agent EXCEPT
                   !.last_tick = now,
                   !.elapsed = now - agent.start,
                   !.sleep_for = Max(SAMPLE_INTERVAL - (now - agent.start),
                                     SleepFloor)]
    /\ now' = now + agent'.sleep_for
    /\ pc' = [pc EXCEPT !["agent"] = "top"]
    /\ UNCHANGED <<ctr, db, schema, initialized, call, tick, hist, cur, dres,
                   pchain, ops, restarts, lastErr>>

\* An end of iteration that sleeps for what is left of the interval, without
\* the floor.
AfterTickNoFloor ==
    /\ pc["agent"] = "after"
    /\ agent' = [agent EXCEPT
                   !.last_tick = agent.start,
                   !.elapsed = now - agent.start,
                   !.sleep_for = Max(SAMPLE_INTERVAL - (now - agent.start), 0)]
    /\ now' = now + agent'.sleep_for
    /\ pc' = [pc EXCEPT !["agent"] = "top"]
    /\ UNCHANGED <<ctr, db, schema, initialized, call, tick, hist, cur, dres,
                   pchain, ops, restarts, lastErr>>

\* last_tick = start; elapsed = time.time() - start;
\* sleep_for = max(config.SAMPLE_INTERVAL - elapsed, 0.5); time.sleep(sleep_for)
AfterTick ==
    /\ pc["agent"] = "after"
    /\ agent' = [agent EXCEPT
                   !.last_tick = agent.start,
                   !.elapsed = now - agent.start,
                   !.sleep_for = Max(SAMPLE_INTERVAL - (now - agent.start),
                                     SleepFloor)]
    /\ now' = now + agent'.sleep_for
    /\ pc' = [pc EXCEPT !["agent"] = "top"]
    /\ UNCHANGED <<ctr, db, schema, initialized, call, tick, hist, cur, dres,
                   pchain, ops, restarts, lastErr>>

(* ------------------------ the dashboard's calls ----------------------- *)
\* minutes arguments of the history readers.
Minutes == {0, 1}
\* cutoff_ts arguments of purge_before, ms (a float of seconds in the code).
Cutoffs == {StartTime - 1500, StartTime - 1000, StartTime + 500}

\* The dashboard calls op(arg).
Start(op, arg) ==
    /\ pc["dash"] = "idle"
    /\ ops < MaxOps
    /\ call' = [call EXCEPT !["dash"] = Enter("dash", op, <<>>, arg)]
    /\ pc' = [pc EXCEPT !["dash"] = "call"]
    /\ ops' = ops + 1
    /\ dres' = NoRes
    /\ UNCHANGED <<now, ctr, db, schema, initialized, agent, tick, hist, cur,
                   restarts, lastErr>>

\* get_cpu_mem_history(minutes) is called.
StartCpuMem ==
    /\ \E m \in Minutes : Start("cpu_mem", m)
    /\ UNCHANGED pchain

\* get_gpu_history(minutes) is called.
StartGpu ==
    /\ \E m \in Minutes : Start("gpu", m)
    /\ UNCHANGED pchain

\* purge_before(cutoff_ts) is called.
StartPurge ==
    \E c \in Cutoffs :
       /\ Start("purge", c)
       /\ pchain' = IF pchain.on /\ pchain.cutoff = c THEN pchain
                    ELSE [NoChain EXCEPT !.on = TRUE, !.cutoff = c, !.base = db]

\* since = int(time.time() - minutes * 60); the first SELECT of
\* get_cpu_mem_history (cpu_samples).  The connection does not autocommit, so
\* the SELECT opens a transaction whose read view (InnoDB, REPEATABLE READ)
\* serves the later SELECTs of the connection.
ReadCpu ==
    /\ call["dash"].op = "cpu_mem"
    /\ call["dash"].phase = "body"
    /\ call["dash"].i = 0
    /\ \/ /\ LET since == PyInt(now - call["dash"].arg * 60000)
             IN call' = [call EXCEPT
                           !["dash"].i = 1,
                           !["dash"].since = since,
                           !["dash"].view = db,
                           !["dash"].got = SelectSince(db["cpu_samples"], since)]
          /\ UNCHANGED <<pc, hist, dres, pchain, lastErr>>
       \/ Raised("dash", CR_SERVER_LOST)
    /\ UNCHANGED <<now, ctr, db, schema, initialized, agent, tick, cur, ops,
                   restarts>>

\* The second SELECT (mem_samples), the merge and the return.
ReadMem ==
    /\ call["dash"].op = "cpu_mem"
    /\ call["dash"].phase = "body"
    /\ call["dash"].i = 1
    /\ \/ /\ LET src == IF autocommit THEN db ELSE call["dash"].view
                 mem == SelectSince(src["mem_samples"], call["dash"].since)
                 cpu == call["dash"].got
             IN dres' = [op |-> "cpu_mem", status |-> "ok",
                         rows |-> IF cpu = <<>> /\ mem = <<>> THEN <<>>
                                  ELSE MergeOuter(cpu, mem),
                         cpu |-> cpu, mem |-> mem,
                         arg |-> call["dash"].since,
                         during |-> db # call["dash"].view,
                         minutes |-> call["dash"].arg]
          /\ call' = [call EXCEPT !["dash"] = NoCall]
          /\ pc' = [pc EXCEPT !["dash"] = "idle"]
          /\ UNCHANGED <<hist, pchain, lastErr>>
       \/ Raised("dash", CR_SERVER_LOST)
    /\ UNCHANGED <<now, ctr, db, schema, initialized, agent, tick, cur, ops,
                   restarts>>

\* get_gpu_history: its one SELECT and the return.
ReadGpu ==
    /\ call["dash"].op = "gpu"
    /\ call["dash"].phase = "body"
    /\ \/ /\ LET since == PyInt(now - call["dash"].arg * 60000)
             IN dres' = [NoRes EXCEPT
                           !.op = "gpu", !.status = "ok",
                           !.rows = SelectSince(db["gpu_samples"], since),
                           !.arg = since,
                           !.during = call["agent"].i > 0,
                           !.minutes = call["dash"].arg]
          /\ call' = [call EXCEPT !["dash"] = NoCall]
          /\ pc' = [pc EXCEPT !["dash"] = "idle"]
          /\ UNCHANGED <<hist, pchain, lastErr>>
       \/ Raised("dash", CR_SERVER_LOST)
    /\ UNCHANGED <<now, ctr, db, schema, initialized, agent, tick, cur, ops,
                   restarts>>

\* InnoDB: a DELETE waits for the rows below its cutoff that an open
\* transaction has inserted into the table.
LockedByInsert(table, cutoff) ==
    /\ ~autocommit
    /\ \E k \in 1..Len(call["agent"].pend) :
          /\ call["agent"].pend[k].table = table
          /\ call["agent"].pend[k].row.ts < cutoff

\* cutoff = int(cutoff_ts); one cursor.execute(DELETE FROM tbl WHERE ts < %s).
PurgeStmt ==
    /\ call["dash"].op = "purge"
    /\ call["dash"].phase = "body"
    /\ call["dash"].i < Len(SeriesTables)
    /\ LET tbl == SeriesTables[call["dash"].i + 1]
           cutoff == PyInt(call["dash"].arg)
       IN \/ /\ ~LockedByInsert(tbl, cutoff)
             /\ db' = IF autocommit
                      THEN [db EXCEPT ![tbl] = DeleteFrom(@, cutoff)]
                      ELSE db
             /\ call' = [call EXCEPT !["dash"].i = @ + 1]
             /\ UNCHANGED <<pc, hist, dres, pchain, lastErr>>
          \/ /\ Raised("dash", CR_SERVER_LOST)
             /\ UNCHANGED db
    /\ UNCHANGED <<now, ctr, schema, initialized, agent, tick, cur, ops, restarts>>

\* conn.commit() of purge_before, and its return.
PurgeCommit ==
    /\ call["dash"].op = "purge"
    /\ call["dash"].phase = "body"
    /\ call["dash"].i = Len(SeriesTables)
    /\ LET cutoff == PyInt(call["dash"].arg)
       IN \/ /\ db' = IF autocommit THEN db
                      ELSE [t \in SeriesSet |-> DeleteFrom(db[t], cutoff)]
             /\ dres' = [NoRes EXCEPT !.op = "purge", !.status = "ok",
                                      !.arg = call["dash"].arg]
             /\ pchain' = IF pchain.on /\ pchain.cutoff = call["dash"].arg
                          THEN [pchain EXCEPT !.succ = IF @ < 2 THEN @ + 1 ELSE @]
                          ELSE pchain
             /\ call' = [call EXCEPT !["dash"] = NoCall]
             /\ pc' = [pc EXCEPT !["dash"] = "idle"]
             /\ UNCHANGED <<hist, lastErr>>
          \/ /\ Raised("dash", CR_SERVER_LOST)
             /\ UNCHANGED db
    /\ UNCHANGED <<now, ctr, schema, initialized, agent, tick, cur, ops, restarts>>

(* --------------------------- process restart -------------------------- *)
\* A process is killed and started again: its module globals and locals are
\* fresh, and the server rolls back the transaction of its lost connection.
Restart(p) ==
    /\ restarts < MaxRestarts
    /\ restarts' = restarts + 1
    /\ initialized' = [initialized EXCEPT ![p] = FALSE]
    /\ call' = [call EXCEPT ![p] = NoCall]
    /\ IF p = "agent"
       THEN /\ pc' = [pc EXCEPT ![p] = "top"]
            /\ agent' = AgentStart(now)
            /\ hist' = IF pc[p] \in {"collect", "call", "return", "except", "after"}
                          /\ hist[tick] \in {"started", "writing"}
                       THEN [hist EXCEPT ![tick] = "killed"]
                       ELSE hist
            /\ UNCHANGED <<dres, pchain>>
       ELSE /\ pc' = [pc EXCEPT ![p] = "idle"]
            /\ dres' = IF pc[p] = "call"
                       THEN [NoRes EXCEPT !.op = call[p].op, !.status = "killed",
                                          !.arg = call[p].arg]
                       ELSE NoRes
            /\ pchain' = IF call[p].op = "purge" /\ call[p].phase = "body"
                            /\ pchain.on /\ pchain.cutoff = call[p].arg
                         THEN [pchain EXCEPT !.fails = 1] ELSE pchain
            /\ UNCHANGED <<agent, hist>>
    /\ UNCHANGED <<now, ctr, db, schema, tick, cur, ops, lastErr>>

(* --------------------------- specification ---------------------------- *)
AgentStep ==
    \/ LoopTop
    \/ Collect
    \/ InitStmt("agent")
    \/ InitCommit("agent")
    \/ InsertStmt
    \/ InsertCommit
    \/ Return
    \/ Except
    \/ AfterTick

DashStep ==
    \/ StartCpuMem
    \/ StartGpu
    \/ StartPurge
    \/ InitStmt("dash")
    \/ InitCommit("dash")
    \/ ReadCpu
    \/ ReadMem
    \/ ReadGpu
    \/ PurgeStmt
    \/ PurgeCommit

Next ==
    \/ AgentStep
    \/ DashStep
    \/ \E p \in Procs : Restart(p)

Spec == Init /\ [][Next]_vars

\* The sampler alone, the dashboard idle.
WriterAgent == AgentStep /\ tick' <= MaxWriterTicks
WriterNext == WriterAgent \/ Restart("agent")
WriterSpec == Init /\ [][WriterNext]_vars

\* main() is a running process that is not killed: it keeps taking its next
\* step.
LoopSpec == Init /\ [][AgentStep]_vars /\ WF_vars(AgentStep)

\* The dashboard alone, the sampler not running.
DashNext == DashStep \/ Restart("dash")
DashSpec == Init /\ [][DashNext]_vars

\* The dashboard's calls setting up a store that is not set up yet.
FreshSpec == InitFresh /\ [][DashNext]_vars

\* The calls of the two processes one after another, both past
\* initialization: the dashboard calls between two iterations of main().
SeqAgent ==
    /\ pc["dash"] = "idle"
    /\ \/ LoopTop
       \/ Collect
       \/ InsertStmt
       \/ InsertCommit
       \/ Return
       \/ Except
       \/ AfterTick
    /\ tick' <= MaxSeqTicks

SeqDash ==
    /\ pc["agent"] = "top"
    /\ \/ StartCpuMem
       \/ StartGpu
       \/ StartPurge
       \/ ReadCpu
       \/ ReadMem
       \/ ReadGpu
       \/ PurgeStmt
       \/ PurgeCommit
    /\ ops' <= MaxSeqOps

SeqNext == SeqAgent \/ SeqDash
SeqSpec == InitWarm /\ [][SeqNext]_vars

\* The sampler, which may be killed and started again, and get_gpu_history
\* called between two of its iterations.
GpuAgent ==
    /\ pc["dash"] = "idle"
    /\ AgentStep
    /\ tick' <= MaxWriterTicks

GpuDash ==
    /\ pc["agent"] = "top"
    /\ StartGpu \/ ReadGpu
    /\ ops' <= MaxConcOps

GpuRestart ==
    /\ pc["dash"] = "idle"
    /\ Restart("agent")

GpuNext == GpuAgent \/ GpuDash \/ GpuRestart
GpuSpec == InitWarm /\ [][GpuNext]_vars

\* The first start, or a later one.
InitEither == Init \/ InitFresh

\* One process alone, from its start: the sampler, or the dashboard.
EitherAgent ==
    /\ ops = 0
    /\ pc["dash"] = "idle"
    /\ AgentStep \/ Restart("agent")
    /\ tick' <= MaxWriterTicks

EitherDash ==
    /\ tick = 0
    /\ pc["agent"] = "top"
    /\ DashStep \/ Restart("dash")

EitherNext == EitherAgent \/ EitherDash
EitherSpec == InitEither /\ [][EitherNext]_vars

\* get_cpu_mem_history alone, against a store of any cpu and mem rows.
JoinNext == StartCpuMem \/ ReadCpu \/ ReadMem
JoinSpec == InitJoin /\ [][JoinNext]_vars

\* The sampler writing while the dashboard reads, both past initialization.
ConcAgent ==
    /\ \/ LoopTop
       \/ Collect
       \/ InsertStmt
       \/ InsertCommit
       \/ Return
       \/ Except
       \/ AfterTick
    /\ tick' <= MaxConcTicks

ConcDash ==
    /\ \/ StartCpuMem
       \/ StartGpu
       \/ ReadCpu
       \/ ReadMem
       \/ ReadGpu
    /\ ops' <= MaxConcOps

ConcNext == ConcAgent \/ ConcDash
ConcSpec == InitWarm /\ [][ConcNext]_vars

(* ============================== claims ================================ *)
\* The rows of snapshot n in table t of store d.
SnapRows(d, t, n) == SelectSeq(d[t], LAMBDA r : r.snap = n)

\* The rows the statements stmts put into table t.
RECURSIVE Expected(_, _)
Expected(stmts, t) ==
    IF stmts = <<>> THEN <<>>
    ELSE (IF Head(stmts).table = t THEN << Head(stmts).row >> ELSE <<>>)
         \o Expected(Tail(stmts), t)

AllOf(d, n, stmts) == \A t \in SeriesSet : SnapRows(d, t, n) = Expected(stmts, t)
NoneOf(d, n) == \A t \in SeriesSet : SnapRows(d, t, n) = <<>>

\* C1: once the insert_snapshot call of a tick has returned or raised, the
\* store holds either every row of the tick's snapshot, in all six tables,
\* or no row of it in any table; after a raise it holds none.
C1_AllOrNothing ==
    (tick >= 1 /\ hist[tick] \in {"committed", "write_failed"}) =>
        /\ AllOf(db, tick, cur.stmts) \/ NoneOf(db, tick)
        /\ hist[tick] = "write_failed" => NoneOf(db, tick)

\* C1 witness: the call raised at a GPU row, after the cpu and mem rows.
C1_Witness ==
    /\ tick >= 1
    /\ hist[tick] = "write_failed"
    /\ lastErr["agent"].phase = "body"
    /\ lastErr["agent"].at = 2
    /\ cur.stmts[3].table = "gpu_samples"
    /\ NoneOf(db, tick)

\* The rows of the first frame whose snapshot has no row in the second.
Unmatched(a, b) ==
    {i \in 1..Len(a) : \A j \in 1..Len(b) : b[j].snap # a[i].snap}

C3_PurgeByCutoff ==
    (dres.op = "purge" /\ dres.status = "ok" /\ pchain.on /\ pchain.succ = 1) =>
        \A t \in SeriesSet :
            /\ \A i \in 1..Len(db[t]) : db[t][i].ts * 1000 >= dres.arg
            /\ SelectSeq(pchain.base[t], LAMBDA r : r.ts * 1000 >= dres.arg)
                 = SelectSeq(db[t], LAMBDA r : r.ts * 1000 >= dres.arg)

\* C4 (as claimed): each table's DELETE is its own unit of work: when
\* purge_before fails after the DELETEs of the first k tables, those k tables
\* are purged.
C4_EachDeleteItsOwnUnit ==
    (dres.op = "purge" /\ dres.status = "raised"
       /\ lastErr["dash"].phase = "body") =>
        \A k \in 1..lastErr["dash"].at :
            \A i \in 1..Len(db[SeriesTables[k]]) :
                db[SeriesTables[k]][i].ts >= PyInt(dres.arg)

\* C4 (amended): purge_before is one transaction over the six tables: as long
\* as no purge of the run has committed, also after one failed or was killed
\* with some DELETEs issued, every table holds all the rows it held before.
C4_PurgeIsOneTransaction ==
    (pchain.on /\ pchain.succ = 0) => db = pchain.base

\* C4 witness: a purge failed after the DELETEs of at least two tables, which
\* had rows below the cutoff, and those rows are still there.
C4_Witness ==
    /\ dres.op = "purge"
    /\ dres.status = "raised"
    /\ lastErr["dash"].phase = "body"
    /\ lastErr["dash"].at >= 2
    /\ pchain.on
    /\ pchain.succ = 0
    /\ pchain.fails = 1
    /\ \E i \in 1..Len(db["cpu_samples"]) :
          db["cpu_samples"][i].ts < PyInt(dres.arg)

\* C5: purge_before(C) run again, after it succeeded or after it failed
\* partway, leaves the six tables exactly as one successful purge_before(C)
\* of the tables it first met leaves them.
C5_PurgeIdempotent ==
    (pchain.on /\ pchain.succ >= 1) =>
        db = [t \in SeriesSet |->
                SelectSeq(pchain.base[t],
                          LAMBDA r : r.ts >= PyInt(pchain.cutoff))]

\* C5 witness: a purge that removed rows failed once and succeeded twice.
C5_Witness ==
    /\ pchain.on
    /\ pchain.succ = 2
    /\ pchain.fails = 1
    /\ db # pchain.base
    /\ pc["dash"] = "idle"

\* C6: init_db_if_needed, run any number of times, also after a run that
\* failed partway or in a restarted process, never raises an error that says
\* an object exists already, and whenever it completes the schema is the one
\* a single successful run leaves.
C6_InitIdempotent ==
    \A p \in Procs :
        /\ lastErr[p].errno \notin {ER_TABLE_EXISTS, ER_DUP_KEYNAME,
                                    ER_DUP_FIELDNAME}
        /\ (initialized[p] \/ call[p].phase = "body") => schema = FinalSchema

\* C6 witness: in a restarted process, after a run that failed among the
\* index statements, a later run has completed.
C6_Witness ==
    /\ restarts = 1
    /\ lastErr["dash"].phase = "init"
    /\ lastErr["dash"].at \in 10..14
    /\ initialized["dash"]
    /\ ops = 3
    /\ schema = FinalSchema

\* C7: a tick that failed, in collection or in the write, is followed by the
\* start of the next tick.
C7_LoopGoesOn ==
    \A n \in 1..(MaxTicks - 1) :
        (pc["agent"] = "except" /\ tick = n) ~> (tick = n + 1)

\* C7 witness: a tick has started after a tick whose write failed.
C7_Witness ==
    /\ tick >= 2
    /\ hist[tick - 1] = "write_failed"
    /\ pc["agent"] = "collect"

\* C8: a tick calls insert_snapshot at most once; a snapshot whose tick failed
\* has no row in any table, then and later; no snapshot has more rows in a
\* table than it submitted.
C8_AtMostOnce ==
    /\ cur.attempts <= 1
    /\ \A n \in 1..tick :
          /\ hist[n] \in {"collect_failed", "write_failed", "killed"}
                => NoneOf(db, n)
          /\ Len(SnapRows(db, "cpu_samples", n)) <= 1
          /\ Len(SnapRows(db, "mem_samples", n)) <= 1
    /\ tick >= 1 =>
          \A t \in SeriesSet :
              Len(SnapRows(db, t, tick)) <= Len(Expected(cur.stmts, t))

\* C8 witness: the write of the first tick failed after some INSERTs, the
\* second tick has committed its own snapshot.
C8_Witness ==
    /\ tick = 2
    /\ restarts = 0
    /\ hist[1] = "write_failed"
    /\ hist[2] = "committed"
    /\ NoneOf(db, 1)
    /\ AllOf(db, 2, cur.stmts)

\* The index of every GPU entry without an error marker, in order.
RECURSIVE ValidIndexes(_)
ValidIndexes(gpus) ==
    IF gpus = <<>> THEN <<>>
    ELSE (IF Head(gpus).error THEN <<>> ELSE << Head(gpus).index >>)
         \o ValidIndexes(Tail(gpus))

\* C9: a committed snapshot has one gpu_samples row for every GPU entry
\* without an error marker and none for an entry with one, and its cpu, mem,
\* disk, net and fan rows.
C9_ErrorEntriesSkipped ==
    (tick >= 1 /\ hist[tick] = "committed") =>
        LET g == SnapRows(db, "gpu_samples", tick)
        IN /\ [i \in 1..Len(g) |-> g[i].key] = ValidIndexes(cur.gpus)
           /\ \A i \in 1..Len(g) :
                 \A j \in 1..Len(cur.gpus) :
                     cur.gpus[j].index = g[i].key => ~cur.gpus[j].error
           /\ Len(SnapRows(db, "cpu_samples", tick)) = 1
           /\ Len(SnapRows(db, "mem_samples", tick)) = 1
           /\ Len(SnapRows(db, "disk_samples", tick)) = Len(DevSeq)
           /\ Len(SnapRows(db, "net_samples", tick)) = Len(IfaceSeq)
           /\ Len(SnapRows(db, "fan_samples", tick)) = Len(FanSeq)

\* C9 witness: a snapshot whose first GPU entry carries the error marker and
\* whose second does not is committed.
C9_Witness ==
    /\ tick >= 1
    /\ hist[tick] = "committed"
    /\ cur.gpus = << Gpu(0, TRUE), Gpu(1, FALSE) >>
    /\ Len(SnapRows(db, "gpu_samples", tick)) = 1

\* C10 (as claimed): at the end of a tick prev_disk and prev_net hold the
\* counters read in the tick if its collection did not fail, also when its
\* write failed, and what they held before the tick otherwise.
C10_PrevOverwritten ==
    (pc["agent"] = "after" /\ hist[tick] # "killed") =>
        IF cur.collected
        THEN agent.prev_disk = cur.new.disk /\ agent.prev_net = cur.new.net
        ELSE agent.prev_disk = cur.prev0.disk /\ agent.prev_net = cur.prev0.net

\* The rate the snapshot of the current tick carries for key k of table t.
RateOf(t, k) ==
    LET r == SelectSeq(Expected(cur.stmts, t), LAMBDA x : x.key = k)
    IN r[1].val

\* The rate owed at an observation of key k of series s (disk, net): none at
\* the first one, otherwise the counter's growth since the observation before
\* over the time between the two.
RateOwed(s, k) ==
    IF cur.obs0 = None THEN None
    ELSE [delta |-> cur.new[s][k] - cur.obs0[s][k],
          ms |-> agent.start - cur.obs_at0]

\* C11 (as claimed): the first observation of a key by the process yields no
\* rate; every later observation yields the counter's growth since the
\* observation before, over the time elapsed between the two observations.
C11_RateFromLastObservation ==
    (pc["agent"] \in {"call", "return", "after", "except"} /\ cur.collected) =>
        /\ \A k \in Range(DevSeq) :
              RateOf("disk_samples", k) = RateOwed("disk", k)
        /\ \A k \in Range(IfaceSeq) :
              RateOf("net_samples", k) = RateOwed("net", k)

\* C15: in every iteration the interval_s passed to collection is
\* max(start - last_tick, epsilon), last_tick being the start of the
\* iteration before (the loop's entry for the first), and is positive.
C15_IntervalFromLastTick ==
    pc["agent"] \in {"collect", "call", "return", "except", "after"} =>
        /\ agent.interval_s = Max(agent.start - cur.start0, Epsilon)
        /\ agent.interval_s > 0
        /\ Epsilon > 0

\* C15 witness: the iteration after one whose write failed, which had taken
\* time, is under way.
C15_Witness ==
    /\ tick = 2
    /\ restarts = 0
    /\ hist[1] = "write_failed"
    /\ pc["agent"] = "collect"
    /\ agent.elapsed > 0
    /\ agent.interval_s = agent.start - cur.start0
    /\ agent.interval_s > SAMPLE_INTERVAL

\* C16: after every tick the loop sleeps for
\* max(SAMPLE_INTERVAL - elapsed, floor), never less than the floor, and the
\* next tick starts at least max(SAMPLE_INTERVAL, elapsed + floor) after the
\* tick's start.
C16_SleepFloor ==
    /\ SleepFloor > 0
    /\ (pc["agent"] = "top" /\ tick >= 1) =>
          /\ agent.sleep_for = Max(SAMPLE_INTERVAL - agent.elapsed, SleepFloor)
          /\ agent.sleep_for >= SleepFloor
    /\ (pc["agent"] = "collect" /\ tick >= 2) =>
          agent.start - cur.start0
             >= Max(SAMPLE_INTERVAL, agent.elapsed + SleepFloor)

\* C16 witness: a failed tick that took most of the interval was followed by
\* a sleep of the floor, and the next tick has started.
C16_Witness ==
    /\ tick >= 2
    /\ pc["agent"] = "collect"
    /\ hist[tick - 1] \in {"collect_failed", "write_failed"}
    /\ SAMPLE_INTERVAL - agent.elapsed < SleepFloor
    /\ agent.sleep_for = SleepFloor
    /\ agent.start - cur.start0 = agent.elapsed + SleepFloor

\* C19 (as claimed): whenever collection is invoked with a non-empty
\* PreviousSampleState, interval_s is the time elapsed since the tick at
\* which that state was captured.
C19_IntervalCoversDelta ==
    (pc["agent"] = "collect" /\ agent.prev_disk # None) =>
        agent.interval_s = agent.start - agent.prev_at

\* The rows of table t with ts at or after lo (seconds).
InWindow(t, lo) == SelectSeq(db[t], LAMBDA r : r.ts >= lo)

\* The rows of table t at or after the time lo (milliseconds).
InWindowMs(t, lo) == SelectSeq(db[t], LAMBDA r : r.ts * 1000 >= lo)

TsOf(rows) == {rows[i].ts : i \in 1..Len(rows)}

\* rows is the outer join on ts of the frames cpu and mem, ascending by ts.
IsOuterJoin(rows, cpu, mem) ==
    /\ \A i \in 1..Len(rows) : \A j \in 1..Len(rows) :
          i < j => rows[i].ts <= rows[j].ts
    /\ TsOf(rows) = TsOf(cpu) \cup TsOf(mem)
    /\ \A i \in 1..Len(rows) :
          /\ (rows[i].cpu = None) <=> (rows[i].ts \notin TsOf(cpu))
          /\ (rows[i].mem = None) <=> (rows[i].ts \notin TsOf(mem))
          /\ rows[i].cpu # None =>
                rows[i].cpu \in Range(cpu) /\ rows[i].cpu.ts = rows[i].ts
          /\ rows[i].mem # None =>
                rows[i].mem \in Range(mem) /\ rows[i].mem.ts = rows[i].ts
    /\ \A i \in 1..Len(cpu) : \E j \in 1..Len(rows) : rows[j].cpu = cpu[i]
    /\ \A i \in 1..Len(mem) : \E j \in 1..Len(rows) : rows[j].mem = mem[i]
    /\ (cpu = <<>> /\ mem = <<>>) => rows = <<>>

\* C12 (as claimed): get_cpu_mem_history(minutes) returns the outer join on
\* ts of the cpu and mem rows with ts >= now - minutes * 60, ascending by ts,
\* and nothing when no row is in that window.
C12_OuterJoinOverWindow ==
    (dres.op = "cpu_mem" /\ dres.status = "ok") =>
        IsOuterJoin(dres.rows,
                    InWindowMs("cpu_samples", now - dres.minutes * 60000),
                    InWindowMs("mem_samples", now - dres.minutes * 60000))

\* C12 (amended): the same, the window being ts >= int(now - minutes * 60).
C12_OuterJoinOverTruncatedWindow ==
    (dres.op = "cpu_mem" /\ dres.status = "ok") =>
        IsOuterJoin(dres.rows,
                    InWindow("cpu_samples", PyInt(now - dres.minutes * 60000)),
                    InWindow("mem_samples", PyInt(now - dres.minutes * 60000)))

\* C12 witness: with a cpu row at one ts and a mem row at a later one, both
\* in the window, the call returned two rows, the first without mem columns
\* and the second without cpu columns.
C12_Witness ==
    /\ dres.op = "cpu_mem"
    /\ dres.status = "ok"
    /\ Len(db["cpu_samples"]) = 1
    /\ Len(db["mem_samples"]) = 1
    /\ Len(dres.rows) = 2
    /\ dres.rows[1].cpu = db["cpu_samples"][1]
    /\ dres.rows[1].mem = None
    /\ dres.rows[2].cpu = None
    /\ dres.rows[2].mem = db["mem_samples"][1]

\* C13 (as claimed): get_gpu_history returns its rows ascending by ts, and no
\* two of them have the same ts and the same gpu_index.
C13_OneRowPerTsAndIndex ==
    (dres.op = "gpu" /\ dres.status = "ok") =>
        \A i \in 1..Len(dres.rows) : \A j \in 1..Len(dres.rows) :
            i < j =>
               /\ dres.rows[i].ts <= dres.rows[j].ts
               /\ ~(dres.rows[i].ts = dres.rows[j].ts
                      /\ dres.rows[i].key = dres.rows[j].key)

\* The snapshots that have a row in store d.
SnapIds(d) == UNION {{d[t][i].snap : i \in 1..Len(d[t])} : t \in SeriesSet}

\* This step commits a purge_before whose cutoff is above every ts of
\* snapshot n.
PurgedAbove(n) ==
    /\ call["dash"].op = "purge"
    /\ dres'.op = "purge"
    /\ dres'.status = "ok"
    /\ \A t \in SeriesSet : \A i \in 1..Len(db[t]) :
          db[t][i].snap = n => call["dash"].arg > db[t][i].ts * 1000

\* C14, one step: a commit of insert_snapshot leaves in each series exactly
\* the rows submitted, all with the snapshot's one ts; the rows of a committed
\* snapshot stay as they are through every step but the commit of a purge
\* with a cutoff above their ts; and a history call whose window covers a
\* stored row returns it.
C14_Step ==
    /\ (tick >= 1 /\ hist[tick] # "committed" /\ hist'[tick] = "committed") =>
          /\ AllOf(db', tick, cur.stmts)
          /\ \A k \in 1..Len(cur.stmts) :
                cur.stmts[k].row.ts = cur.stmts[1].row.ts
          /\ Len(SnapRows(db', "cpu_samples", tick)) = 1
          /\ Len(SnapRows(db', "mem_samples", tick)) = 1
    /\ \A n \in SnapIds(db) :
          \/ \A t \in SeriesSet : SnapRows(db', t, n) = SnapRows(db, t, n)
          \/ PurgedAbove(n)
    /\ (dres' # dres /\ dres'.status = "ok" /\ dres'.op = "gpu") =>
          \A i \in 1..Len(db["gpu_samples"]) :
              db["gpu_samples"][i].ts >= dres'.arg =>
                 \E j \in 1..Len(dres'.rows) :
                     dres'.rows[j] = db["gpu_samples"][i]
    /\ (dres' # dres /\ dres'.status = "ok" /\ dres'.op = "cpu_mem") =>
          /\ \A i \in 1..Len(db["cpu_samples"]) :
                db["cpu_samples"][i].ts >= dres'.arg =>
                   \E j \in 1..Len(dres'.rows) :
                       dres'.rows[j].cpu = db["cpu_samples"][i]
          /\ \A i \in 1..Len(db["mem_samples"]) :
                db["mem_samples"][i].ts >= dres'.arg =>
                   \E j \in 1..Len(dres'.rows) :
                       dres'.rows[j].mem = db["mem_samples"][i]

CountAt(d, t, x) == Len(SelectSeq(d[t], LAMBDA r : r.ts = x))

\* C20: cpu_samples and mem_samples hold the same number of rows for every
\* ts, whatever calls of insert_snapshot and purge_before succeeded or failed,
\* and get_cpu_mem_history returns no row without cpu columns or without mem
\* columns.
C20_CpuMemPaired ==
    /\ \A x \in TsOf(db["cpu_samples"]) \cup TsOf(db["mem_samples"]) :
          CountAt(db, "cpu_samples", x) = CountAt(db, "mem_samples", x)
    /\ (dres.op = "cpu_mem" /\ dres.status = "ok") =>
          \A j \in 1..Len(dres.rows) :
              dres.rows[j].cpu # None /\ dres.rows[j].mem # None

\* C20 witness: a write failed after its cpu row was inserted, and a purge
\* that followed removed the oldest snapshot from both tables.
C20_Witness ==
    /\ tick = 1
    /\ hist[1] = "write_failed"
    /\ lastErr["agent"].phase = "body"
    /\ lastErr["agent"].at = 1
    /\ dres.op = "purge"
    /\ dres.status = "ok"
    /\ CountAt(db, "cpu_samples", PyInt(StartTime) - 2) = 0
    /\ CountAt(db, "cpu_samples", PyInt(StartTime) - 1) = 1
    /\ CountAt(db, "mem_samples", PyInt(StartTime) - 1) = 1

\* C17: init_db_if_needed lets through every error but a duplicate index or
\* column; after such an error the process's flag is unset, the operation
\* that called it has read, written and deleted nothing, and the next call
\* runs the schema statements again.
C17_OtherErrorsPropagate ==
    \A p \in Procs :
        /\ lastErr[p].errno \notin {ER_DUP_KEYNAME, ER_DUP_FIELDNAME}
        /\ call[p].phase = "init" =>
              /\ ~initialized[p]
              /\ call[p].pend = <<>>
              /\ call[p].got = <<>>
        /\ call[p].op # "none" =>
              (call[p].phase = "init" <=> ~initialized[p])
        /\ (p = "dash" /\ dres.status = "raised" /\ lastErr[p].phase = "init") =>
              /\ ~initialized[p]
              /\ dres.rows = <<>>
              /\ (pchain.on /\ pchain.succ = 0) => db = pchain.base
        /\ (p = "agent" /\ tick >= 1 /\ hist[tick] = "write_failed"
               /\ lastErr[p].phase = "init") =>
              /\ ~initialized[p]
              /\ NoneOf(db, tick)

\* C17 witness: purge_before failed in initialization, at a statement after
\* duplicate-index errors that were swallowed, with an error of another
\* kind; the flag is unset and the rows are all there.
C17_Witness ==
    /\ dres.op = "purge"
    /\ dres.status = "raised"
    /\ lastErr["dash"].phase = "init"
    /\ lastErr["dash"].at >= 12
    /\ lastErr["dash"].errno = CR_SERVER_LOST
    /\ ~initialized["dash"]
    /\ ops = 2
    /\ db = OldDb
    /\ schema = FinalSchema

\* C18, one step: a process whose flag is set runs no schema statement and
\* keeps the flag while it lives; the flag is set only by the step that ends
\* a run of all schema statements; and the only change insert_snapshot makes
\* to the store is to add the rows of its snapshot.
C18_Step ==
    /\ \A p \in Procs :
          /\ initialized[p] =>
                /\ call[p].phase # "init"
                /\ call'[p].phase # "init"
                /\ schema' = schema
                /\ initialized'[p] \/ restarts' # restarts
          /\ (~initialized[p] /\ initialized'[p]) =>
                /\ call[p].phase = "init"
                /\ call[p].i = NInit
                /\ schema = FinalSchema
    /\ (call["agent"].phase = "body" /\ db' # db) =>
          /\ db' = Apply(db, cur.stmts)
          /\ schema' = schema

\* C18: after init_db_if_needed has completed in a process, no call of the
\* process changes the schema: every step keeps what C18_Step says.
C18_NoSchemaChangeOnceInitialized == [][C18_Step]_vars

\* C18 witness: the sampler, started against an empty store, is in the
\* INSERTs of its second insert_snapshot; the schema is the one the first
\* call left.
C18_Witness ==
    /\ tick = 2
    /\ restarts = 0
    /\ hist[1] = "committed"
    /\ db # EmptyDb
    /\ initialized["agent"]
    /\ call["agent"].op = "insert"
    /\ call["agent"].phase = "body"
    /\ call["agent"].i >= 1
    /\ ~(\E i \in 1..Len(db["cpu_samples"]) : db["cpu_samples"][i].snap = 0)
    /\ schema = FinalSchema

====
